---- MODULE Spec2Model ----
(***************************************************************************)
(* The preprocessing pipeline of preprocess_health_data.py: the field      *)
(* normalizers, the classification chain, the per-category batches, the    *)
(* batch writer, the metadata aggregation and the driver with its two      *)
(* exception handlers.                                                     *)
(*                                                                         *)
(* Python values are modelled as follows.                                  *)
(*   - None is the empty tuple; a value that may be None is <<v>> or None. *)
(*   - A string that the code takes apart (a date, a type identifier) is a *)
(*     tuple of tokens, so that split, strip and startswith are computed.  *)
(*   - A float is an integer number of tenths.                             *)
(*   - An element is a record holding its tag and the attributes it has;   *)
(*     an attribute the element lacks is a field the record lacks.         *)
(***************************************************************************)
EXTENDS Integers, Sequences, FiniteSets, TLC

\* Longest document (number of elements) drawn from Elements.
MaxDoc == 3

\* BATCH_SIZE of the source is 1000; the model keeps the comparison
\* len(batch) >= BATCH_SIZE and scales the number down so that a full batch
\* is reached inside MaxDoc elements.
BATCH_SIZE == 2

None == <<>>

Some(v) == <<v>>

\* ------------------------------------------------------------------------
\* Field normalizers.  A call either returns a value or raises: its result
\* is [exc |-> "none", val |-> v] or [exc |-> <exception class>].

Ret(v) == [exc |-> "none", val |-> v]

Raise(e) == [exc |-> e]

\* The numeric literals float() accepts, with their value in tenths.
FloatLiterals == {"72", "5.0", "1800", "400"}

FloatOf(s) ==
    CASE s = "72" -> 720
      [] s = "5.0" -> 50
      [] s = "1800" -> 18000
      [] s = "400" -> 4000

\* float(s) of a string: ValueError for every string that is no literal.
Float(s) == IF s \in FloatLiterals THEN Ret(FloatOf(s)) ELSE Raise("ValueError")

\* Variant of the except clause of safe_float that lets ValueError through.
FloatExcepts_NoValueError == {"TypeError"}

\* The except clause of safe_float.
FloatExcepts == {"ValueError", "TypeError"}

\* Variant of safe_float that answers the default whatever the value.
safe_float_default(value, default) == Ret(default)

\* safe_float(value, default): value is None or <<string>>.
safe_float(value, default) ==
    IF value = None \/ value[1] = ""
    THEN Ret(default)
    ELSE LET r == Float(value[1])
         IN  IF r.exc = "none" \/ r.exc \notin FloatExcepts THEN r ELSE Ret(default)

\* Tokens of the layout '%Y-%m-%d %H:%M:%S', with the timestamp each denotes.
DateTimeTokens == {"T1", "T2"}

TimeOf(tok) == IF tok = "T1" THEN 1 ELSE 2

\* str.split('+')[0]: the tokens before the first "+".
RECURSIVE BeforePlus(_)
BeforePlus(s) ==
    IF s = <<>> \/ Head(s) = "+" THEN <<>> ELSE <<Head(s)>> \o BeforePlus(Tail(s))

\* str.strip(): leading and trailing blanks removed.
RECURSIVE LStrip(_)
LStrip(s) == IF s # <<>> /\ Head(s) = " " THEN LStrip(Tail(s)) ELSE s

RECURSIVE RStrip(_)
RStrip(s) ==
    IF s # <<>> /\ s[Len(s)] = " " THEN RStrip(SubSeq(s, 1, Len(s) - 1)) ELSE s

Strip(s) == RStrip(LStrip(s))

\* datetime.strptime(s, '%Y-%m-%d %H:%M:%S'): a timestamp when s is exactly
\* one date-time token, ValueError otherwise.
StrpTime(s) ==
    IF Len(s) = 1 /\ s[1] \in DateTimeTokens
    THEN Ret(TimeOf(s[1]))
    ELSE Raise("ValueError")

\* Variant of the except clause that lets ValueError through.
DateExcepts_NoValueError == {"TypeError", "IndexError"}

\* The except clause of safe_parse_date.
DateExcepts == {"ValueError", "TypeError", "IndexError"}

\* Variant of safe_parse_date that answers a default date where the source
\* answers None.
safe_parse_date_default(date_str) ==
    IF date_str = None \/ date_str[1] = <<>>
    THEN Ret(Some(1))
    ELSE LET r == StrpTime(Strip(BeforePlus(date_str[1])))
         IN  IF r.exc = "none" THEN Ret(Some(r.val))
             ELSE IF r.exc \in {"ValueError", "TypeError", "IndexError"}
                  THEN Ret(Some(1)) ELSE r

\* safe_parse_date(date_str): date_str is None or <<token tuple>>.
safe_parse_date(date_str) ==
    IF date_str = None \/ date_str[1] = <<>>
    THEN Ret(None)
    ELSE LET r == StrpTime(Strip(BeforePlus(date_str[1])))
         IN  IF r.exc = "none" THEN Ret(Some(r.val))
             ELSE IF r.exc \in DateExcepts THEN Ret(None) ELSE r

\* ------------------------------------------------------------------------
\* Elements

\* elem.get(key)
Get(elem, key) == IF key \in DOMAIN elem THEN Some(elem[key]) ELSE None

\* elem.get(key, default)
GetOr(elem, key, default) == IF key \in DOMAIN elem THEN elem[key] ELSE default

Q(name) == <<"HKQuantityTypeIdentifier", name>>

QDietary(name) == <<"HKQuantityTypeIdentifier", "Dietary", name>>

HeartRate == Q("HeartRate")

SleepAnalysis == <<"HKCategoryTypeIdentifier", "SleepAnalysis">>

\* Variant of the dietary prefix that is the quantity prefix alone.
DietaryPrefix_Quantity == <<"HKQuantityTypeIdentifier">>

\* 'HKQuantityTypeIdentifierDietary'
DietaryPrefix == <<"HKQuantityTypeIdentifier", "Dietary">>

\* str.startswith(prefix)
StartsWith(s, prefix) ==
    Len(s) >= Len(prefix) /\ SubSeq(s, 1, Len(prefix)) = prefix

\* ------------------------------------------------------------------------
\* Classification chain (the if/elif chain of the main loop, in its order)

BodySet ==
    {Q("BodyMassIndex"), Q("Height"), Q("BodyMass"), Q("BodyFatPercentage"),
     Q("LeanBodyMass"), Q("WaistCircumference")}

WalkingSet ==
    {Q("WalkingSpeed"), Q("WalkingStepLength"), Q("WalkingAsymmetryPercentage"),
     Q("WalkingDoubleSupportPercentage"), Q("AppleWalkingSteadiness")}

EnvironmentalSet ==
    {Q("EnvironmentalAudioExposure"), Q("HeadphoneAudioExposure"),
     Q("TimeInDaylight")}

SetRule(ids, cat) == [kind |-> "set", ids |-> ids, cat |-> cat, metric |-> TRUE]

ExactRule(id, cat) == [kind |-> "exact", ids |-> {id}, cat |-> cat, metric |-> FALSE]

PrefixRule(prefix, cat) ==
    [kind |-> "prefix", ids |-> {prefix}, cat |-> cat, metric |-> TRUE]

\* Variant of the chain with the dietary prefix branch before the
\* DietaryWater and DietaryCaffeine branches.
Rules_PrefixFirst ==
    << SetRule(BodySet, "body_metrics"),
       ExactRule(HeartRate, "heart_rate"),
       ExactRule(Q("RestingHeartRate"), "resting_heart_rate"),
       ExactRule(Q("HeartRateVariabilitySDNN"), "heart_rate_variability"),
       ExactRule(Q("VO2Max"), "vo2_max"),
       ExactRule(Q("HeartRateRecoveryOneMinute"), "heart_rate_recovery"),
       ExactRule(Q("WalkingHeartRateAverage"), "walking_heart_rate"),
       ExactRule(Q("StepCount"), "steps"),
       ExactRule(Q("DistanceWalkingRunning"), "distance_walking_running"),
       ExactRule(Q("DistanceCycling"), "distance_cycling"),
       ExactRule(Q("FlightsClimbed"), "flights_climbed"),
       ExactRule(Q("AppleExerciseTime"), "exercise_time"),
       ExactRule(Q("AppleStandTime"), "stand_time"),
       SetRule(WalkingSet, "walking_metrics"),
       ExactRule(Q("ActiveEnergyBurned"), "active_energy"),
       ExactRule(Q("BasalEnergyBurned"), "basal_energy"),
       ExactRule(Q("OxygenSaturation"), "oxygen_saturation"),
       ExactRule(Q("RespiratoryRate"), "respiratory_rate"),
       PrefixRule(DietaryPrefix, "dietary_metrics"),
       ExactRule(QDietary("Water"), "water"),
       ExactRule(QDietary("Caffeine"), "caffeine"),
       SetRule(EnvironmentalSet, "environmental"),
       ExactRule(SleepAnalysis, "sleep") >>

Rules ==
    << SetRule(BodySet, "body_metrics"),
       ExactRule(HeartRate, "heart_rate"),
       ExactRule(Q("RestingHeartRate"), "resting_heart_rate"),
       ExactRule(Q("HeartRateVariabilitySDNN"), "heart_rate_variability"),
       ExactRule(Q("VO2Max"), "vo2_max"),
       ExactRule(Q("HeartRateRecoveryOneMinute"), "heart_rate_recovery"),
       ExactRule(Q("WalkingHeartRateAverage"), "walking_heart_rate"),
       ExactRule(Q("StepCount"), "steps"),
       ExactRule(Q("DistanceWalkingRunning"), "distance_walking_running"),
       ExactRule(Q("DistanceCycling"), "distance_cycling"),
       ExactRule(Q("FlightsClimbed"), "flights_climbed"),
       ExactRule(Q("AppleExerciseTime"), "exercise_time"),
       ExactRule(Q("AppleStandTime"), "stand_time"),
       SetRule(WalkingSet, "walking_metrics"),
       ExactRule(Q("ActiveEnergyBurned"), "active_energy"),
       ExactRule(Q("BasalEnergyBurned"), "basal_energy"),
       ExactRule(Q("OxygenSaturation"), "oxygen_saturation"),
       ExactRule(Q("RespiratoryRate"), "respiratory_rate"),
       ExactRule(QDietary("Water"), "water"),
       ExactRule(QDietary("Caffeine"), "caffeine"),
       PrefixRule(DietaryPrefix, "dietary_metrics"),
       SetRule(EnvironmentalSet, "environmental"),
       ExactRule(SleepAnalysis, "sleep") >>

\* The condition of one branch of the chain.
Matches(rule, record_type) ==
    IF rule.kind = "prefix"
    THEN \E p \in rule.ids : StartsWith(record_type, p)
    ELSE record_type \in rule.ids

\* The branch the chain takes for record_type: the first whose condition
\* holds, 0 when none does.
MatchRule(record_type) ==
    IF \E i \in 1..Len(Rules) : Matches(Rules[i], record_type)
    THEN CHOOSE i \in 1..Len(Rules) :
            /\ Matches(Rules[i], record_type)
            /\ \A j \in 1..(i - 1) : ~Matches(Rules[j], record_type)
    ELSE 0

\* The keys of the batches dict, in insertion order.
Categories ==
    << "body_metrics", "heart_rate", "resting_heart_rate",
       "heart_rate_variability", "vo2_max", "heart_rate_recovery",
       "walking_heart_rate", "steps", "distance_walking_running",
       "distance_cycling", "flights_climbed", "exercise_time", "stand_time",
       "walking_metrics", "active_energy", "basal_energy",
       "oxygen_saturation", "respiratory_rate", "water", "caffeine",
       "dietary_metrics", "environmental", "sleep", "workouts" >>

CategorySet == {Categories[i] : i \in 1..Len(Categories)}

\* ------------------------------------------------------------------------
\* Inputs: documents and output directories

Rec(type, start, value) ==
    [tag |-> "Record", type |-> type, startDate |-> start,
     endDate |-> start, value |-> value, unit |-> "u", sourceName |-> "Watch"]

\* The elements documents of up to MaxDoc elements are built from.
Elements ==
    { Rec(HeartRate, <<"T1", " ", "+", "0000">>, "72"),
      Rec(HeartRate, <<"T2", " ", "+", "0000">>, ""),
      Rec(Q("BloodGlucose"), <<"T2", " ", "+", "0000">>, "5.0"),
      [tag |-> "Record", type |-> HeartRate, value |-> "72"],
      [tag |-> "Workout", workoutActivityType |-> "Running",
       startDate |-> <<"T1", " ", "+", "0000">>,
       endDate |-> <<"T2", " ", "+", "0000">>, duration |-> "1800",
       totalDistance |-> "5.0", totalEnergyBurned |-> "400",
       sourceName |-> "Watch"] }

\* Every identifier the chain names, with identifiers it does not name.
Identifiers ==
    UNION {Rules[r].ids : r \in 1..Len(Rules)}
    \cup {QDietary("VitaminC"), QDietary("EnergyConsumed"),
          <<"HKQuantityTypeIdentifier", "Dietary", "Water", "Intake">>,
          Q("BloodGlucose"), Q("HeartRateX"),
          <<"HKCategoryTypeIdentifier", "Dietary">>, <<>>}

\* Start dates: well-formed with and without an offset, and malformed.
RawDates ==
    { <<"T1">>, <<"T2", " ", "+", "0530">>, <<"T1", " ", "-", "0500">>,
      <<"garbage">>, <<>> }

\* The elements single-element documents are built from.
WideElements ==
    {Rec(t, d, "72") : t \in Identifiers, d \in RawDates}
    \cup {[tag |-> "Record", startDate |-> <<"T1">>, value |-> "72"],
          [tag |-> "Record", type |-> HeartRate, startDate |-> <<"T1">>,
           value |-> "abc"],
          [tag |-> "Workout", startDate |-> <<"T2">>],
          [tag |-> "Workout", workoutActivityType |-> "Running",
           startDate |-> <<"garbage">>, duration |-> "1800"],
          [tag |-> "ExportDate"]}

\* The sequences of 1 to n members of S (a document holds its root element
\* at least).
SeqsUpTo(S, n) == UNION {[1..k -> S] : k \in 1..n}

Docs == SeqsUpTo(Elements, MaxDoc) \cup {<<e>> : e \in WideElements}

\* A line of a category table: the header, or a data row.  n is the position
\* in the document of the element the row was made from; a row that was in
\* the file before the run has n = 0.
HeaderLine(cols) == [kind |-> "header", cols |-> cols]

OldRow ==
    [kind |-> "row", n |-> 0,
     rec |-> [date |-> 1, endDate |-> Some(1), value |-> 600, unit |-> "u",
              source |-> "Watch"]]

OldTable == <<HeaderLine(DOMAIN OldRow.rec), OldRow>>

NoMeta == [state |-> "absent", content |-> <<>>]

\* The output directory before the run: empty; left by an earlier completed
\* run; left by an earlier interrupted run.
DirStates ==
    { [files |-> <<>>, meta |-> NoMeta],
      [files |-> ("heart_rate" :> OldTable),
       meta |-> [state |-> "stale", content |-> <<>>]],
      [files |-> ("heart_rate" :> OldTable), meta |-> NoMeta] }

\* ------------------------------------------------------------------------
\* State

VARIABLES
    xml_exists,       \* os.path.exists(xml_path)
    doc,              \* the elements of the document, in document order
    files,            \* category -> lines of <category>.csv, for the files that exist
    meta,             \* metadata.json
    pc,               \* the driver's state
    at,               \* the position inside the driver's state
    pos,              \* elements the current pass has been given
    total_records,    \* count of count_elements
    held,             \* elements yielded and not yet cleared
    cur,              \* category the element in hand was appended to
    batches,          \* category -> buffered records
    all_data_types,
    data_ranges,
    record_counts,
    flush_at,         \* position of the final flush loop in Categories
    exit_status,      \* -1 while the process runs
    abort,            \* how and where the run was aborted
    files0,           \* the category tables before the run
    meta0,            \* metadata.json before the run
    wlog,             \* the writes of the run, in order
    path,             \* the driver's states so far, in order
    dashboard         \* the dashboard: one execution of app.py's main

vars ==
    <<xml_exists, doc, files, meta, pc, at, pos, total_records, held, cur,
      batches, all_data_types, data_ranges, record_counts, flush_at,
      exit_status, abort, files0, meta0, wlog, path, dashboard>>

\* The dashboard before main runs: nothing checked, nothing read, nothing in
\* st.session_state.
NotStarted ==
    [pc |-> "main", seen |-> FALSE, loads |-> <<>>, next |-> 1,
     data_loaded |-> FALSE, metadata_cached |-> FALSE]

NoAbort == [cause |-> "none"]

Init ==
    /\ \E d \in DirStates :
          /\ files = d.files
          /\ meta = d.meta
          /\ files0 = d.files
          /\ meta0 = d.meta
    /\ \/ xml_exists = TRUE /\ doc \in Docs
       \/ xml_exists = FALSE /\ doc = <<>>
    /\ pc = "INIT"
    /\ at = "start"
    /\ pos = 0
    /\ total_records = 0
    /\ held = 0
    /\ cur = ""
    /\ batches = [c \in CategorySet |-> <<>>]
    /\ all_data_types = {}
    /\ data_ranges = <<>>
    /\ record_counts = <<>>
    /\ flush_at = 1
    /\ exit_status = -1
    /\ abort = NoAbort
    /\ wlog = <<>>
    /\ path = <<"INIT">>
    /\ dashboard = NotStarted

\* ------------------------------------------------------------------------
\* Batch writer

Row(b) == [kind |-> "row", n |-> b.n, rec |-> b.rec]

Rows(records) == [k \in 1..Len(records) |-> Row(records[k])]

\* The columns of pd.DataFrame(records).
Columns(records) == UNION {DOMAIN records[k].rec : k \in 1..Len(records)}

\* Variant of save_batch with header=True whether or not the file exists.
save_batch_always_header(fs, cat, records) ==
    IF cat \in DOMAIN fs
    THEN [fs EXCEPT ![cat] = @ \o <<HeaderLine(Columns(records))>> \o Rows(records)]
    ELSE fs @@ (cat :> (<<HeaderLine(Columns(records))>> \o Rows(records)))

\* Variant of save_batch that opens the file for writing instead of
\* appending: the file holds a header row and the rows of this batch only.
save_batch_truncates(fs, cat, records) ==
    [c \in DOMAIN fs \cup {cat} |->
        IF c = cat THEN <<HeaderLine(Columns(records))>> \o Rows(records)
        ELSE fs[c]]

\* save_batch(records, filename) when the write succeeds: the file with the
\* rows appended, after a header row when the file did not exist.
save_batch(fs, cat, records) ==
    IF cat \in DOMAIN fs
    THEN [fs EXCEPT ![cat] = @ \o Rows(records)]
    ELSE fs @@ (cat :> (<<HeaderLine(Columns(records))>> \o Rows(records)))

\* What one successful save_batch adds to the log of writes.
WriteEvent(fs, cat, records, by) ==
    [cat |-> cat, ns |-> [k \in 1..Len(records) |-> records[k].n],
     header |-> cat \notin DOMAIN fs, by |-> by]

\* The categories whose buffer is not empty, in the order of batches.items().
NonEmpty(b) == SelectSeq(Categories, LAMBDA c : b[c] # <<>>)

\* for data_type, records in batches.items(): if records: save_batch(...),
\* over the categories cs, every write succeeding.
RECURSIVE FlushAll(_, _, _)
FlushAll(fs, b, cs) ==
    IF cs = <<>> THEN fs
    ELSE FlushAll(save_batch(fs, Head(cs), b[Head(cs)]), b, Tail(cs))

RECURSIVE FlushLog(_, _, _, _)
FlushLog(fs, b, cs, by) ==
    IF cs = <<>> THEN <<>>
    ELSE <<WriteEvent(fs, Head(cs), b[Head(cs)], by)>>
         \o FlushLog(save_batch(fs, Head(cs), b[Head(cs)]), b, Tail(cs), by)

\* ------------------------------------------------------------------------
\* Metadata aggregation

\* Variant of update_date_range that keeps the bounds the first observation
\* set.
update_date_range_first(ranges, data_type, date) ==
    IF date = None \/ data_type \in DOMAIN ranges THEN ranges
    ELSE [k \in DOMAIN ranges \cup {data_type} |->
             IF k = data_type THEN [min_date |-> date, max_date |-> date]
             ELSE ranges[k]]

\* Variant of update_date_range that sets the lower bound only.
update_date_range_min_only(ranges, data_type, date) ==
    IF date = None THEN ranges
    ELSE LET old == IF data_type \in DOMAIN ranges THEN ranges[data_type]
                    ELSE [min_date |-> None, max_date |-> None]
             lo == IF old.min_date = None THEN date[1] ELSE old.min_date[1]
             new == [min_date |-> Some(IF date[1] < lo THEN date[1] ELSE lo),
                     max_date |-> old.max_date]
         IN  [k \in DOMAIN ranges \cup {data_type} |->
                 IF k = data_type THEN new ELSE ranges[k]]

\* update_date_range(data_type, date); date is None or <<timestamp>>.
update_date_range(ranges, data_type, date) ==
    IF date = None THEN ranges
    ELSE LET old == IF data_type \in DOMAIN ranges THEN ranges[data_type]
                    ELSE [min_date |-> None, max_date |-> None]
             lo == IF old.min_date = None THEN date[1] ELSE old.min_date[1]
             hi == IF old.max_date = None THEN date[1] ELSE old.max_date[1]
             new == [min_date |-> Some(IF date[1] < lo THEN date[1] ELSE lo),
                     max_date |-> Some(IF date[1] > hi THEN date[1] ELSE hi)]
         IN  [k \in DOMAIN ranges \cup {data_type} |->
                 IF k = data_type THEN new ELSE ranges[k]]

\* record_counts[key] += 1 on a defaultdict(int).
Increment(counts, key) ==
    [k \in DOMAIN counts \cup {key} |->
        IF k = key THEN (IF key \in DOMAIN counts THEN counts[key] ELSE 0) + 1
        ELSE counts[k]]

\* datetime.isoformat()
IsoFormat(t) == <<"iso", t>>

\* Variant of the metadata whose data_types are the identifiers that were
\* counted.
Metadata_CountedTypes ==
    [data_types |-> DOMAIN record_counts \ {<<"workouts">>},
     record_counts |-> record_counts,
     data_ranges |->
        [k \in DOMAIN data_ranges |->
            [min_date |-> IF data_ranges[k].min_date # None
                          THEN Some(IsoFormat(data_ranges[k].min_date[1])) ELSE None,
             max_date |-> IF data_ranges[k].max_date # None
                          THEN Some(IsoFormat(data_ranges[k].max_date[1])) ELSE None]]]

\* The metadata dict of the end of the run.
Metadata ==
    [data_types |-> all_data_types,
     record_counts |-> record_counts,
     data_ranges |->
        [k \in DOMAIN data_ranges |->
            [min_date |-> IF data_ranges[k].min_date # None
                          THEN Some(IsoFormat(data_ranges[k].min_date[1])) ELSE None,
             max_date |-> IF data_ranges[k].max_date # None
                          THEN Some(IsoFormat(data_ranges[k].max_date[1])) ELSE None]]]

\* ------------------------------------------------------------------------
\* The element in hand

Elem == doc[pos]

Truthy(opt) == opt # None /\ opt[1] # <<>>

WorkoutsKey == <<"workouts">>

\* The normalized fields of the element in hand.
StartDate == safe_parse_date(Get(Elem, "startDate"))

EndDate == safe_parse_date(Get(Elem, "endDate"))

\* base_record of a Record element with a valid start date.
BaseRecord ==
    [date |-> StartDate.val[1],
     endDate |-> EndDate.val,
     value |-> safe_float(Get(Elem, "value"), 0).val,
     unit |-> GetOr(Elem, "unit", ""),
     source |-> GetOr(Elem, "sourceName", "")]

\* Variant of the workout dict that takes the distance for the energy.
WorkoutRecord_EnergyFromDistance ==
    [type |-> Get(Elem, "workoutActivityType"),
     duration |-> safe_float(Get(Elem, "duration"), 0).val,
     date |-> StartDate.val[1],
     endDate |-> EndDate.val,
     distance |-> safe_float(Get(Elem, "totalDistance"), 0).val,
     energy |-> safe_float(Get(Elem, "totalDistance"), 0).val,
     source |-> GetOr(Elem, "sourceName", "")]

\* The workout dict of a Workout element with a valid start date.
WorkoutRecord ==
    [type |-> Get(Elem, "workoutActivityType"),
     duration |-> safe_float(Get(Elem, "duration"), 0).val,
     date |-> StartDate.val[1],
     endDate |-> EndDate.val,
     distance |-> safe_float(Get(Elem, "totalDistance"), 0).val,
     energy |-> safe_float(Get(Elem, "totalEnergyBurned"), 0).val,
     source |-> GetOr(Elem, "sourceName", "")]

\* Whether a normalizer call made for the element in hand raises.
RecordRaises ==
    \/ StartDate.exc # "none"
    \/ /\ StartDate.val # None
       /\ \/ EndDate.exc # "none"
          \/ safe_float(Get(Elem, "value"), 0).exc # "none"

WorkoutRaises ==
    \/ StartDate.exc # "none"
    \/ /\ StartDate.val # None
       /\ \/ EndDate.exc # "none"
          \/ \E k \in {"duration", "totalDistance", "totalEnergyBurned"} :
                safe_float(Get(Elem, k), 0).exc # "none"

\* Variant of the appended record that never carries metric_type.
Routed_NoMetric(r) == BaseRecord

\* The record the chain appends for record_type under rule r.
Routed(r) ==
    IF Rules[r].metric
    THEN BaseRecord @@ [metric_type |-> Elem.type]
    ELSE BaseRecord

\* Variant of the append that puts the record at the head of the buffer.
AppendTo_AtHead(b, cat, rec) ==
    [b EXCEPT ![cat] = <<[n |-> pos, rec |-> rec]>> \o @]

\* batches[cat].append(rec)
AppendTo(b, cat, rec) == [b EXCEPT ![cat] = Append(@, [n |-> pos, rec |-> rec])]

\* ------------------------------------------------------------------------
\* The two handlers of the driver

\* What is recorded of an abort: its cause, where the driver was, and the
\* tables and buffers of that moment.
AbortRecord(cause, failed) ==
    [cause |-> cause, pc |-> pc, at |-> at, files |-> files,
     batches |-> batches, write_failed |-> failed]

\* Variant of except Exception that prints the diagnostic and returns.
ExceptException_Returns ==
    /\ pc' = "ABORTED"
    /\ path' = Append(path, "ABORTED")
    /\ at' = "exit"
    /\ exit_status' = 0
    /\ held' = 0
    /\ abort' = AbortRecord("error", FALSE)

\* except Exception: the diagnostic and sys.exit(1).  When the exception
\* leaves the loop body, finally has cleared the element in hand.
ExceptException ==
    /\ pc' = "ABORTED"
    /\ path' = Append(path, "ABORTED")
    /\ at' = "exit"
    /\ exit_status' = 1
    /\ held' = 0
    /\ abort' = AbortRecord("error", FALSE)

\* except KeyboardInterrupt: every non-empty buffer is written, in the order
\* of batches.items(), then sys.exit(1).
ExceptKeyboardInterrupt ==
    /\ pc' = "ABORTED"
    /\ path' = Append(path, "ABORTED")
    /\ at' = "exit"
    /\ exit_status' = 1
    /\ held' = 0
    /\ files' = FlushAll(files, batches, NonEmpty(batches))
    /\ wlog' = wlog \o FlushLog(files, batches, NonEmpty(batches), "handler")
    /\ abort' = AbortRecord("interrupt", FALSE)

\* except KeyboardInterrupt when the save_batch of the k-th non-empty buffer
\* raises: the buffers before it are written, the exception leaves the
\* handler and the interpreter ends the process with status 1.
ExceptKeyboardInterruptFails(k) ==
    LET done == SubSeq(NonEmpty(batches), 1, k - 1)
    IN  /\ pc' = "ABORTED"
        /\ path' = Append(path, "ABORTED")
        /\ at' = "exit"
        /\ exit_status' = 1
        /\ held' = 0
        /\ files' = FlushAll(files, batches, done)
        /\ wlog' = wlog \o FlushLog(files, batches, done, "handler")
        /\ abort' = AbortRecord("interrupt", TRUE)

\* ------------------------------------------------------------------------
\* INIT

\* The input file does not exist: FileNotFoundError.
InitMissingInput ==
    /\ pc = "INIT"
    /\ ~xml_exists
    /\ ExceptException
    /\ UNCHANGED <<dashboard, xml_exists, doc, files, meta, pos, total_records, cur,
                   batches, all_data_types, data_ranges, record_counts,
                   flush_at, files0, meta0, wlog>>

\* create_directory raises.
InitMkdirFails ==
    /\ pc = "INIT"
    /\ xml_exists
    /\ ExceptException
    /\ UNCHANGED <<dashboard, xml_exists, doc, files, meta, pos, total_records, cur,
                   batches, all_data_types, data_ranges, record_counts,
                   flush_at, files0, meta0, wlog>>

\* The containers are initialized and the counting pass starts.
InitOk ==
    /\ pc = "INIT"
    /\ xml_exists
    /\ pc' = "COUNTING"
    /\ path' = Append(path, "COUNTING")
    /\ at' = "next"
    /\ pos' = 0
    /\ UNCHANGED <<dashboard, xml_exists, doc, files, meta, total_records, held, cur,
                   batches, all_data_types, data_ranges, record_counts,
                   flush_at, exit_status, abort, files0, meta0, wlog>>

\* ------------------------------------------------------------------------
\* COUNTING: count_elements

\* The body of the loop of count_elements: the element the reader yielded is
\* counted when it is a Record or a Workout, and cleared.
CountElement ==
    /\ pc = "COUNTING"
    /\ at = "elem"
    /\ total_records' =
          IF doc[pos].tag \in {"Record", "Workout"}
          THEN total_records + 1 ELSE total_records
    /\ held' = held - 1
    /\ at' = "next"
    /\ UNCHANGED <<dashboard, xml_exists, doc, files, meta, pc, path, pos, cur, batches,
                   all_data_types, data_ranges, record_counts, flush_at,
                   exit_status, abort, files0, meta0, wlog>>

\* Variant of the end of count_elements that starts the counting pass again
\* instead of returning.
CountDone_Restarts ==
    /\ pc = "COUNTING"
    /\ at = "next"
    /\ pos = Len(doc)
    /\ pos' = 0
    /\ total_records' = 0
    /\ UNCHANGED <<dashboard, xml_exists, doc, files, meta, pc, path, at, held, cur,
                   batches, all_data_types, data_ranges, record_counts,
                   flush_at, exit_status, abort, files0, meta0, wlog>>

\* count_elements returns; the main pass starts from the top of the document.
CountDone ==
    /\ pc = "COUNTING"
    /\ at = "next"
    /\ pos = Len(doc)
    /\ pc' = "STREAMING"
    /\ path' = Append(path, "STREAMING")
    /\ at' = "next"
    /\ pos' = 0
    /\ UNCHANGED <<dashboard, xml_exists, doc, files, meta, total_records, held, cur,
                   batches, all_data_types, data_ranges, record_counts,
                   flush_at, exit_status, abort, files0, meta0, wlog>>

\* ET.iterparse raises while the next element is read (either pass).
ReadFails ==
    /\ pc \in {"COUNTING", "STREAMING"}
    /\ at = "next"
    /\ ExceptException
    /\ UNCHANGED <<dashboard, xml_exists, doc, files, meta, pos, total_records, cur,
                   batches, all_data_types, data_ranges, record_counts,
                   flush_at, files0, meta0, wlog>>

\* ------------------------------------------------------------------------
\* STREAMING: the main loop, one element at a time

\* The reader yields the next element (either pass).
Yield ==
    /\ pc \in {"COUNTING", "STREAMING"}
    /\ at = "next"
    /\ pos < Len(doc)
    /\ pos' = pos + 1
    /\ held' = held + 1
    /\ at' = "elem"
    /\ UNCHANGED <<dashboard, xml_exists, doc, files, meta, pc, path, total_records, cur,
                   batches, all_data_types, data_ranges, record_counts,
                   flush_at, exit_status, abort, files0, meta0, wlog>>

\* A Record element, up to the append of the chain.
DispatchRecord ==
    /\ pc = "STREAMING"
    /\ at = "elem"
    /\ Elem.tag = "Record"
    /\ IF ~Truthy(Get(Elem, "type"))
       THEN /\ at' = "clear"
            /\ UNCHANGED <<pc, path, held, cur, batches, all_data_types,
                           data_ranges, exit_status, abort>>
       ELSE /\ all_data_types' = all_data_types \cup {Elem.type}
            /\ IF RecordRaises
               THEN /\ ExceptException
                    /\ UNCHANGED <<cur, batches, data_ranges>>
               ELSE IF StartDate.val = None
               THEN /\ at' = "clear"
                    /\ UNCHANGED <<pc, path, held, cur, batches, data_ranges,
                                   exit_status, abort>>
               ELSE /\ data_ranges' =
                          update_date_range(data_ranges, Elem.type, StartDate.val)
                    /\ LET r == MatchRule(Elem.type)
                       IN  IF r # 0
                           THEN /\ batches' = AppendTo(batches, Rules[r].cat, Routed(r))
                                /\ cur' = Rules[r].cat
                                /\ at' = "appended"
                           ELSE /\ at' = "routed"
                                /\ cur' = ""
                                /\ UNCHANGED batches
                    /\ UNCHANGED <<pc, path, held, exit_status, abort>>
    /\ UNCHANGED <<dashboard, xml_exists, doc, files, meta, pos, total_records,
                   record_counts, flush_at, files0, meta0, wlog>>

\* A Workout element, up to the append.
DispatchWorkout ==
    /\ pc = "STREAMING"
    /\ at = "elem"
    /\ Elem.tag = "Workout"
    /\ IF WorkoutRaises
       THEN /\ ExceptException
            /\ UNCHANGED <<cur, batches>>
       ELSE IF StartDate.val = None
       THEN /\ at' = "clear"
            /\ UNCHANGED <<pc, path, held, cur, batches, exit_status, abort>>
       ELSE /\ batches' = AppendTo(batches, "workouts", WorkoutRecord)
            /\ cur' = "workouts"
            /\ at' = "appended"
            /\ UNCHANGED <<pc, path, held, exit_status, abort>>
    /\ UNCHANGED <<dashboard, xml_exists, doc, files, meta, pos, total_records,
                   all_data_types, data_ranges, record_counts, flush_at,
                   files0, meta0, wlog>>

\* An element that is neither a Record nor a Workout.
DispatchOther ==
    /\ pc = "STREAMING"
    /\ at = "elem"
    /\ Elem.tag \notin {"Record", "Workout"}
    /\ at' = "clear"
    /\ UNCHANGED <<dashboard, xml_exists, doc, files, meta, pc, path, pos, total_records, held,
                   cur, batches, all_data_types, data_ranges, record_counts,
                   flush_at, exit_status, abort, files0, meta0, wlog>>

\* save_batch_if_full when the buffer is below BATCH_SIZE.
SaveBatchNotFull ==
    /\ pc = "STREAMING"
    /\ at = "appended"
    /\ ~(Len(batches[cur]) >= BATCH_SIZE)
    /\ at' = "routed"
    /\ UNCHANGED <<dashboard, xml_exists, doc, files, meta, pc, path, pos, total_records, held,
                   cur, batches, all_data_types, data_ranges, record_counts,
                   flush_at, exit_status, abort, files0, meta0, wlog>>

\* save_batch_if_full, first statement: the full buffer is written.
SaveBatchFull ==
    /\ pc = "STREAMING"
    /\ at = "appended"
    /\ Len(batches[cur]) >= BATCH_SIZE
    /\ files' = save_batch(files, cur, batches[cur])
    /\ wlog' = Append(wlog, WriteEvent(files, cur, batches[cur], "stream"))
    /\ at' = "written"
    /\ UNCHANGED <<dashboard, xml_exists, doc, meta, pc, path, pos, total_records, held, cur,
                   batches, all_data_types, data_ranges, record_counts,
                   flush_at, exit_status, abort, files0, meta0>>

\* save_batch raises inside save_batch_if_full.
SaveBatchFullFails ==
    /\ pc = "STREAMING"
    /\ at = "appended"
    /\ Len(batches[cur]) >= BATCH_SIZE
    /\ ExceptException
    /\ UNCHANGED <<dashboard, xml_exists, doc, files, meta, pos, total_records, cur,
                   batches, all_data_types, data_ranges, record_counts,
                   flush_at, files0, meta0, wlog>>

\* Variant of the second statement of save_batch_if_full that leaves the
\* buffer as it is.
ResetBatch_Keeps ==
    /\ pc = "STREAMING"
    /\ at = "written"
    /\ at' = "routed"
    /\ UNCHANGED <<dashboard, xml_exists, doc, files, meta, pc, path, pos, total_records, held,
                   cur, batches, all_data_types, data_ranges, record_counts,
                   flush_at, exit_status, abort, files0, meta0, wlog>>

\* save_batch_if_full, second statement: batches[data_type] = [].
ResetBatch ==
    /\ pc = "STREAMING"
    /\ at = "written"
    /\ batches' = [batches EXCEPT ![cur] = <<>>]
    /\ at' = "routed"
    /\ UNCHANGED <<dashboard, xml_exists, doc, files, meta, pc, path, pos, total_records, held,
                   cur, all_data_types, data_ranges, record_counts, flush_at,
                   exit_status, abort, files0, meta0, wlog>>

\* Variant of the statements after the chain that counts a Record only when
\* a branch of the chain took it.
Count_OnlyRouted ==
    /\ pc = "STREAMING"
    /\ at = "routed"
    /\ IF Elem.tag = "Record"
       THEN /\ record_counts' =
                  IF cur # "" THEN Increment(record_counts, Elem.type)
                  ELSE record_counts
            /\ UNCHANGED data_ranges
       ELSE /\ data_ranges' =
                  update_date_range(data_ranges, WorkoutsKey, StartDate.val)
            /\ record_counts' = Increment(record_counts, WorkoutsKey)
    /\ at' = "clear"
    /\ UNCHANGED <<dashboard, xml_exists, doc, files, meta, pc, path, pos, total_records, held,
                   cur, batches, all_data_types, flush_at, exit_status, abort,
                   files0, meta0, wlog>>

\* The statements after the chain: record_counts[record_type] += 1 for a
\* Record; update_date_range('workouts', date) and
\* record_counts['workouts'] += 1 for a Workout.
Count ==
    /\ pc = "STREAMING"
    /\ at = "routed"
    /\ IF Elem.tag = "Record"
       THEN /\ record_counts' = Increment(record_counts, Elem.type)
            /\ UNCHANGED data_ranges
       ELSE /\ data_ranges' =
                  update_date_range(data_ranges, WorkoutsKey, StartDate.val)
            /\ record_counts' = Increment(record_counts, WorkoutsKey)
    /\ at' = "clear"
    /\ UNCHANGED <<dashboard, xml_exists, doc, files, meta, pc, path, pos, total_records, held,
                   cur, batches, all_data_types, flush_at, exit_status, abort,
                   files0, meta0, wlog>>

\* Variant of the main loop without the finally clause: the element is not
\* cleared.
Clear_Keeps ==
    /\ pc = "STREAMING"
    /\ at = "clear"
    /\ at' = "next"
    /\ UNCHANGED <<dashboard, xml_exists, doc, files, meta, pc, path, pos, total_records, held,
                   cur, batches, all_data_types, data_ranges, record_counts,
                   flush_at, exit_status, abort, files0, meta0, wlog>>

\* finally: elem.clear()
Clear ==
    /\ pc = "STREAMING"
    /\ at = "clear"
    /\ held' = held - 1
    /\ at' = "next"
    /\ UNCHANGED <<dashboard, xml_exists, doc, files, meta, pc, path, pos, total_records, cur,
                   batches, all_data_types, data_ranges, record_counts,
                   flush_at, exit_status, abort, files0, meta0, wlog>>

\* Variant of the end of the main loop that goes on to the metadata without
\* the final flush loop.
EndOfDocument_NoFinalFlush ==
    /\ pc = "STREAMING"
    /\ at = "next"
    /\ pos = Len(doc)
    /\ pc' = "METADATA_WRITE"
    /\ path' = path \o <<"FLUSHING", "METADATA_WRITE">>
    /\ at' = "open"
    /\ flush_at' = Len(Categories) + 1
    /\ UNCHANGED <<dashboard, xml_exists, doc, files, meta, pos, total_records, held,
                   cur, batches, all_data_types, data_ranges, record_counts,
                   exit_status, abort, files0, meta0, wlog>>

\* The reader is exhausted: the final flush loop starts.
EndOfDocument ==
    /\ pc = "STREAMING"
    /\ at = "next"
    /\ pos = Len(doc)
    /\ pc' = "FLUSHING"
    /\ path' = Append(path, "FLUSHING")
    /\ at' = "loop"
    /\ flush_at' = 1
    /\ UNCHANGED <<dashboard, xml_exists, doc, files, meta, pos, total_records, held,
                   cur, batches, all_data_types, data_ranges, record_counts,
                   exit_status, abort, files0, meta0, wlog>>

\* ------------------------------------------------------------------------
\* FLUSHING: the loop over batches.items() after the main loop

\* Variant of the condition of the final flush loop without `if records`.
ToFlush_All == flush_at..Len(Categories)

\* The positions the loop has still to visit whose buffer is not empty.
ToFlush ==
    {j \in flush_at..Len(Categories) : batches[Categories[j]] # <<>>}

NextFlush == CHOOSE j \in ToFlush : \A k \in ToFlush : j <= k

\* The loop reaches the next non-empty buffer and writes it.  The buffer is
\* left as it is.
FlushWrite ==
    /\ pc = "FLUSHING"
    /\ ToFlush # {}
    /\ LET c == Categories[NextFlush]
       IN  /\ files' = save_batch(files, c, batches[c])
           /\ wlog' = Append(wlog, WriteEvent(files, c, batches[c], "flush"))
    /\ flush_at' = NextFlush + 1
    /\ UNCHANGED <<dashboard, xml_exists, doc, meta, pc, path, at, pos, total_records, held,
                   cur, batches, all_data_types, data_ranges, record_counts,
                   exit_status, abort, files0, meta0>>

\* save_batch raises in the loop.
FlushWriteFails ==
    /\ pc = "FLUSHING"
    /\ ToFlush # {}
    /\ ExceptException
    /\ UNCHANGED <<dashboard, xml_exists, doc, files, meta, pos, total_records, cur,
                   batches, all_data_types, data_ranges, record_counts,
                   flush_at, files0, meta0, wlog>>

\* The loop ends.
FlushDone ==
    /\ pc = "FLUSHING"
    /\ ToFlush = {}
    /\ pc' = "METADATA_WRITE"
    /\ path' = Append(path, "METADATA_WRITE")
    /\ at' = "open"
    /\ flush_at' = Len(Categories) + 1
    /\ UNCHANGED <<dashboard, xml_exists, doc, files, meta, pos, total_records, held,
                   cur, batches, all_data_types, data_ranges, record_counts,
                   exit_status, abort, files0, meta0, wlog>>

\* ------------------------------------------------------------------------
\* METADATA_WRITE

MetaEvent == [cat |-> "metadata.json", ns |-> <<>>, header |-> FALSE, by |-> "metadata"]

\* open(metadata.json, 'w'): the file is created or truncated.
MetaOpen ==
    /\ pc = "METADATA_WRITE"
    /\ at = "open"
    /\ meta' = [state |-> "partial", content |-> <<>>]
    /\ wlog' = Append(wlog, MetaEvent)
    /\ at' = "dump"
    /\ UNCHANGED <<dashboard, xml_exists, doc, files, pc, path, pos, total_records, held, cur,
                   batches, all_data_types, data_ranges, record_counts,
                   flush_at, exit_status, abort, files0, meta0>>

\* open raises.
MetaOpenFails ==
    /\ pc = "METADATA_WRITE"
    /\ at = "open"
    /\ ExceptException
    /\ UNCHANGED <<dashboard, xml_exists, doc, files, meta, pos, total_records, cur,
                   batches, all_data_types, data_ranges, record_counts,
                   flush_at, files0, meta0, wlog>>

\* json.dump writes the metadata and the file is closed.
MetaDump ==
    /\ pc = "METADATA_WRITE"
    /\ at = "dump"
    /\ meta' = [state |-> "complete", content |-> Metadata]
    /\ at' = "summary"
    /\ UNCHANGED <<dashboard, xml_exists, doc, files, pc, path, pos, total_records, held, cur,
                   batches, all_data_types, data_ranges, record_counts,
                   flush_at, exit_status, abort, files0, meta0, wlog>>

\* json.dump raises on a write.
MetaDumpFails ==
    /\ pc = "METADATA_WRITE"
    /\ at = "dump"
    /\ ExceptException
    /\ UNCHANGED <<dashboard, xml_exists, doc, files, meta, pos, total_records, cur,
                   batches, all_data_types, data_ranges, record_counts,
                   flush_at, files0, meta0, wlog>>

\* The summary is printed and the function returns: exit status 0.
Return ==
    /\ pc = "METADATA_WRITE"
    /\ at = "summary"
    /\ pc' = "DONE"
    /\ path' = Append(path, "DONE")
    /\ at' = "exit"
    /\ exit_status' = 0
    /\ UNCHANGED <<dashboard, xml_exists, doc, files, meta, pos, total_records, held,
                   cur, batches, all_data_types, data_ranges, record_counts,
                   flush_at, abort, files0, meta0, wlog>>

\* ------------------------------------------------------------------------
\* KeyboardInterrupt: raised at whatever statement the driver is at

Running == pc \in {"INIT", "COUNTING", "STREAMING", "FLUSHING", "METADATA_WRITE"}

Interrupt ==
    /\ Running
    /\ ExceptKeyboardInterrupt
    /\ UNCHANGED <<dashboard, xml_exists, doc, meta, pos, total_records, cur, batches,
                   all_data_types, data_ranges, record_counts, flush_at,
                   files0, meta0>>

InterruptWriteFails ==
    /\ Running
    /\ \E k \in 1..Len(NonEmpty(batches)) : ExceptKeyboardInterruptFails(k)
    /\ UNCHANGED <<dashboard, xml_exists, doc, meta, pos, total_records, cur, batches,
                   all_data_types, data_ranges, record_counts, flush_at,
                   files0, meta0>>

Next ==
    \/ InitMissingInput
    \/ InitMkdirFails
    \/ InitOk
    \/ CountElement
    \/ CountDone
    \/ ReadFails
    \/ Yield
    \/ DispatchRecord
    \/ DispatchWorkout
    \/ DispatchOther
    \/ SaveBatchNotFull
    \/ SaveBatchFull
    \/ SaveBatchFullFails
    \/ ResetBatch
    \/ Count
    \/ Clear
    \/ EndOfDocument
    \/ FlushWrite
    \/ FlushWriteFails
    \/ FlushDone
    \/ MetaOpen
    \/ MetaOpenFails
    \/ MetaDump
    \/ MetaDumpFails
    \/ Return
    \/ Interrupt
    \/ InterruptWriteFails

Spec == Init /\ [][Next]_vars

\* ------------------------------------------------------------------------
\* Vocabulary of the properties

\* The data rows of <cat>.csv that this run wrote.
RunRows(cat) ==
    IF cat \in DOMAIN files
    THEN SelectSeq(files[cat], LAMBDA l : l.kind = "row" /\ l.n > 0)
    ELSE <<>>

\* The element has a start date that safe_parse_date accepts.
Dated(e) ==
    LET r == safe_parse_date(Get(e, "startDate"))
    IN  r.exc = "none" /\ r.val # None

\* The element is one the main loop counts: a Record with a type and a
\* start date, or a Workout with a start date.
Counted(e) ==
    \/ e.tag = "Record" /\ Truthy(Get(e, "type")) /\ Dated(e)
    \/ e.tag = "Workout" /\ Dated(e)

\* The key of record_counts and data_ranges the element is counted under.
KeyOf(e) == IF e.tag = "Record" THEN e.type ELSE WorkoutsKey

\* The category a counted element is buffered for, "" when it is none.
CategoryOf(e) ==
    IF e.tag = "Workout" THEN "workouts"
    ELSE IF MatchRule(e.type) # 0 THEN Rules[MatchRule(e.type)].cat ELSE ""

RoutedElem(e) == Counted(e) /\ CategoryOf(e) # ""

\* How often the element at position n of the document occurs in a sequence
\* of rows or of buffered records.
Occurrences(seq, n) == Cardinality({k \in 1..Len(seq) : seq[k].n = n})

AtBoundary == pc = "STREAMING" /\ at = "next"

InterruptedIn(states) ==
    pc = "ABORTED" /\ abort.cause = "interrupt" /\ abort.pc \in states

\* The table of cat as it was when the run was aborted is still the head of
\* the table.
PriorKept(cat) ==
    /\ cat \in DOMAIN files
    /\ Len(files[cat]) >= Len(abort.files[cat])
    /\ SubSeq(files[cat], 1, Len(abort.files[cat])) = abort.files[cat]

\* The table of cat is the table of the moment of the abort with the
\* records buffered at that moment after it.
BufferAppended(cat) ==
    /\ cat \in DOMAIN files
    /\ files[cat] =
          (IF cat \in DOMAIN abort.files THEN abort.files[cat]
           ELSE <<HeaderLine(Columns(abort.batches[cat]))>>)
          \o [k \in 1..Len(abort.batches[cat]) |->
                 [kind |-> "row", n |-> abort.batches[cat][k].n,
                  rec |-> abort.batches[cat][k].rec]]

\* The table of cat is as it was at the moment of the abort.
Untouched(cat) ==
    IF cat \in DOMAIN abort.files
    THEN cat \in DOMAIN files /\ files[cat] = abort.files[cat]
    ELSE cat \notin DOMAIN files

\* ------------------------------------------------------------------------
\* C1

C2_NoRecordWrittenTwice ==
    \A c \in DOMAIN files : \A n \in 1..Len(doc) : Occurrences(RunRows(c), n) <= 1

\* ------------------------------------------------------------------------
\* C3

\* C3: when an error other than an interrupt ends the run during STREAMING,
\* every record that was buffered at the error is in its table afterwards.
C3_ErrorFlushesBuffers ==
    (pc = "ABORTED" /\ abort.cause = "error" /\ abort.pc = "STREAMING") =>
        \A c \in CategorySet : \A k \in 1..Len(abort.batches[c]) :
            Occurrences(RunRows(c), abort.batches[c][k].n) >= 1

\* ------------------------------------------------------------------------
\* C4

\* The positions inside the processing of one element.
InElement == {"elem", "appended", "written", "routed", "clear"}

ErrorInElement ==
    pc = "ABORTED" /\ abort.cause = "error" /\ abort.pc = "STREAMING"
    /\ abort.at \in InElement

\* The counts, the date ranges, the buffers and the tables account for the
\* elements processed so far, each counted element once.
Consistent ==
    LET counted == {j \in 1..pos : Counted(doc[j])}
        keys == {KeyOf(doc[j]) : j \in counted}
    IN  /\ DOMAIN record_counts = keys
        /\ DOMAIN data_ranges = keys
        /\ \A key \in keys :
              record_counts[key] =
                  Cardinality({j \in counted : KeyOf(doc[j]) = key})
        /\ \A j \in 1..pos : \A c \in CategorySet :
              Occurrences(RunRows(c), j) + Occurrences(batches[c], j) =
                  IF RoutedElem(doc[j]) /\ CategoryOf(doc[j]) = c THEN 1 ELSE 0

\* C4, as stated: a failure raised while one element is normalized,
\* classified or routed does not abort the run.
C4_ElementFailureNeverAborts == ~ErrorInElement

\* C4, amended: a field that does not parse raises nothing out of the
\* normalizers, so the only failure that leaves the processing of an element
\* is that of the write of a full batch, and that one does abort the run,
\* with exit status 1; between two elements the counts, the date ranges, the
\* buffers and the tables account for every element processed so far, the
\* ones after a malformed element included.
C4_OnlyBatchWriteAborts ==
    /\ ErrorInElement =>
          /\ abort.at = "appended"
          /\ Len(abort.batches[cur]) >= BATCH_SIZE
          /\ exit_status = 1
    /\ AtBoundary => Consistent

\* A Record without start date, or with an empty value, was processed and an
\* element after it is in its buffer.
C4_Witness ==
    /\ AtBoundary
    /\ \E j, k \in 1..pos :
          /\ j < k
          /\ doc[j].tag = "Record"
          /\ "startDate" \notin DOMAIN doc[j] \/ Get(doc[j], "value") = Some("")
          /\ RoutedElem(doc[k])
          /\ Occurrences(batches[CategoryOf(doc[k])], k) = 1

\* ------------------------------------------------------------------------
\* C5

StateOrder ==
    <<"INIT", "COUNTING", "STREAMING", "FLUSHING", "METADATA_WRITE", "DONE">>

\* The positions of the log of writes at which metadata.json was opened.
MetaWrites == {m \in 1..Len(wlog) : wlog[m].by = "metadata"}

\* C5: the run goes through the states in their order (ABORTED ending it at
\* any point), metadata.json is written at most once, only after the final
\* flush has written every non-empty buffer, and never on a run that ends
\* ABORTED.
C5_MetadataOnlyOnCompletedRun ==
    /\ \E k \in 1..Len(StateOrder) :
          \/ path = SubSeq(StateOrder, 1, k)
          \/ path = SubSeq(StateOrder, 1, k) \o <<"ABORTED">>
    /\ Cardinality(MetaWrites) <= 1
    /\ \A m \in MetaWrites : \A c \in CategorySet :
          batches[c] # <<>> =>
              \E w \in 1..(m - 1) : wlog[w].cat = c /\ wlog[w].by = "flush"
    /\ pc = "ABORTED" => (MetaWrites = {} /\ meta = meta0)

\* ------------------------------------------------------------------------
\* C6

\* C6, for the runs that wrote rows: after an interrupt during COUNTING,
\* STREAMING or FLUSHING the output directory holds no metadata file,
\* whatever it held before the run.
C6_InterruptedRunLeavesNoMetadata ==
    (/\ InterruptedIn({"COUNTING", "STREAMING", "FLUSHING"})
     /\ \E c \in DOMAIN files : RunRows(c) # <<>>)
        => meta.state = "absent"

\* ------------------------------------------------------------------------
\* C7

\* The element has no startDate attribute, or one that is empty or not of
\* the layout at all.
MalformedStart(e) ==
    "startDate" \notin DOMAIN e \/ e.startDate \in {<<>>, <<"garbage">>}

\* The Records and Workouts among the first n elements whose start date is
\* not malformed and is accepted by safe_parse_date, Records having a type.
WellDated(n) ==
    {j \in 1..n :
        /\ doc[j].tag \in {"Record", "Workout"}
        /\ ~MalformedStart(doc[j])
        /\ Dated(doc[j])
        /\ doc[j].tag = "Record" => Truthy(Get(doc[j], "type"))}

Timestamps == {TimeOf(tok) : tok \in DateTimeTokens}

\* C7: an element whose start date is missing or unparseable is in no
\* buffer and in no table, adds to no count and to no date range; every
\* buffered record and every row written has a date, that of its element.
C7_DatelessElementsDropped ==
    LET well == WellDated(pos)
        dropped == {j \in 1..pos : doc[j].tag \in {"Record", "Workout"}} \ well
        under(key) == {j \in well : KeyOf(doc[j]) = key}
    IN  /\ \A j \in dropped : \A c \in CategorySet :
              Occurrences(batches[c], j) = 0 /\ Occurrences(RunRows(c), j) = 0
        /\ \A key \in DOMAIN record_counts :
              record_counts[key] <= Cardinality(under(key))
        /\ \A key \in DOMAIN data_ranges :
              /\ under(key) # {}
              /\ \A b \in {data_ranges[key].min_date, data_ranges[key].max_date} :
                    /\ b # None
                    /\ b[1] \in {TimeOf(doc[j].startDate[1]) : j \in under(key)}
        /\ \A c \in CategorySet :
              \A r \in {batches[c][k] : k \in 1..Len(batches[c])}
                       \cup {RunRows(c)[k] : k \in 1..Len(RunRows(c))} :
                  /\ r.rec.date \in Timestamps
                  /\ r.n \in well
                  /\ r.rec.date = TimeOf(doc[r.n].startDate[1])

\* A Record or Workout with a malformed start date has been processed, and
\* so has an element that was routed.
C7_Witness ==
    /\ AtBoundary
    /\ \E j \in 1..pos :
          /\ doc[j].tag \in {"Record", "Workout"}
          /\ MalformedStart(doc[j])
          /\ doc[j].tag = "Record" => Truthy(Get(doc[j], "type"))
    /\ \E k \in 1..pos : RoutedElem(doc[k])

\* ------------------------------------------------------------------------
\* C8

RECURSIVE SumOver(_, _)
SumOver(f, keys) ==
    IF keys = {} THEN 0
    ELSE LET k == CHOOSE x \in keys : TRUE
         IN  f[k] + SumOver(f, keys \ {k})

\* The sum of all record_counts values.
CountsTotal == SumOver(record_counts, DOMAIN record_counts)

\* The number of data rows this run wrote to the category tables.
RowsTotal ==
    SumOver([c \in CategorySet |-> Len(RunRows(c))], CategorySet)

\* C8, as stated: at the end of a successful run the sum of all record_counts
\* values is the number of data rows written, and no key of record_counts is
\* an identifier that matches no classification rule.
C8_CountsOnlyRoutedRecords ==
    pc = "DONE" =>
        /\ CountsTotal = RowsTotal
        /\ \A j \in 1..Len(doc) :
              (Counted(doc[j]) /\ ~RoutedElem(doc[j])) =>
                  KeyOf(doc[j]) \notin DOMAIN record_counts

\* C8, amended: record_counts is incremented once for every Record that has
\* a type and a valid start date, under its identifier, whether or not a
\* classification rule matches it, and once for every Workout with a valid
\* start date; at the end of a successful run the sum of all record_counts
\* values is the number of data rows written plus the number of dated
\* Records whose identifier matches no rule.
C8_CountsEveryDatedRecord ==
    /\ (AtBoundary \/ pc = "DONE") =>
          LET counted == {j \in 1..pos : Counted(doc[j])}
          IN  /\ DOMAIN record_counts = {KeyOf(doc[j]) : j \in counted}
              /\ \A key \in DOMAIN record_counts :
                    record_counts[key] =
                        Cardinality({j \in counted : KeyOf(doc[j]) = key})
    /\ pc = "DONE" =>
          /\ pos = Len(doc)
          /\ CountsTotal =
                RowsTotal
                + Cardinality({j \in 1..Len(doc) :
                                  Counted(doc[j]) /\ ~RoutedElem(doc[j])})

\* A successful run whose document holds a dated Record that no rule matches,
\* and a routed one.
C8_Witness ==
    /\ pc = "DONE"
    /\ \E j \in 1..Len(doc) :
          /\ Counted(doc[j])
          /\ ~RoutedElem(doc[j])
          /\ record_counts[KeyOf(doc[j])] >= 1
    /\ RowsTotal >= 1

\* ------------------------------------------------------------------------
\* C9

\* The chain has appended the Record in hand.
RecordAppended ==
    pc = "STREAMING" /\ at = "appended" /\ Elem.tag = "Record"

\* The buffers that hold the element in hand.
HoldingBuffers == {c \in CategorySet : Occurrences(batches[c], pos) > 0}

\* The rank of a branch in the order fixed sets, exact identifiers, prefix.
Tier(rule) ==
    CASE rule.kind = "set" -> 1
      [] rule.kind = "exact" -> 2
      [] rule.kind = "prefix" -> 3

FixedSets ==
    {[ids |-> BodySet, cat |-> "body_metrics"],
     [ids |-> WalkingSet, cat |-> "walking_metrics"],
     [ids |-> EnvironmentalSet, cat |-> "environmental"]}

\* C9, as stated: the chain evaluates the fixed sets first, then the exact
\* identifiers, then the dietary prefix, so that no branch of a later rank
\* stands before the branch that routed a record; a member of a fixed set
\* goes to the category of the set and never to dietary_metrics.
C9_FixedSetsThenExactThenPrefix ==
    RecordAppended =>
        LET r == MatchRule(Elem.type)
        IN  /\ \A j \in 1..(r - 1) : Tier(Rules[j]) <= Tier(Rules[r])
            /\ \A s \in FixedSets :
                  Elem.type \in s.ids => HoldingBuffers = {s.cat}

\* C9, amended: the chain is evaluated in the order it is written in
\* (body_metrics set, twelve exact identifiers, walking_metrics set, six exact
\* identifiers ending with DietaryWater and DietaryCaffeine, the dietary
\* prefix, environmental set, SleepAnalysis), first match wins; no member of
\* a fixed set begins with the dietary prefix, and a member of a fixed set is
\* buffered for the category of the set, for that one only and with its
\* identifier as metric_type, never for dietary_metrics.
C9_FixedSetMembersToTheirSet ==
    /\ \A s \in FixedSets : \A id \in s.ids : ~StartsWith(id, DietaryPrefix)
    /\ RecordAppended =>
          \A s \in FixedSets :
              Elem.type \in s.ids =>
                  /\ cur = s.cat
                  /\ HoldingBuffers = {s.cat}
                  /\ batches[s.cat][Len(batches[s.cat])].rec.metric_type = Elem.type

\* A member of the environmental set, whose branch stands after the dietary
\* prefix, has been appended.
C9_Witness ==
    /\ RecordAppended
    /\ Elem.type \in EnvironmentalSet
    /\ cur = "environmental"

\* ------------------------------------------------------------------------
\* C10

\* The category C10 names for a Record whose identifier begins with the
\* dietary prefix.
DietaryCategory(id) ==
    IF id = QDietary("Water") THEN "water"
    ELSE IF id = QDietary("Caffeine") THEN "caffeine"
    ELSE "dietary_metrics"

\* The element in hand is a Record with a type and a date whose identifier
\* begins with the dietary prefix.
DietaryInHand ==
    /\ pc = "STREAMING"
    /\ at \in InElement \ {"elem"}
    /\ Elem.tag = "Record"
    /\ Truthy(Get(Elem, "type"))
    /\ Dated(Elem)
    /\ StartsWith(Elem.type, DietaryPrefix)

\* C10: a dated Record whose identifier begins with the dietary prefix is
\* buffered for dietary_metrics with its identifier as metric_type, except
\* DietaryWater (water) and DietaryCaffeine (caffeine), and for no other
\* category; once its batch is written and reset the record is in the table
\* of that category.
C10_DietaryRouting ==
    DietaryInHand =>
        LET c == DietaryCategory(Elem.type)
        IN  /\ cur = c
            /\ HoldingBuffers \subseteq {c}
            /\ \A d \in CategorySet \ {c} : Occurrences(RunRows(d), pos) = 0
            /\ Occurrences(batches[c], pos) + Occurrences(RunRows(c), pos) >= 1
            /\ at = "appended" =>
                  LET rec == batches[c][Len(batches[c])].rec
                  IN  /\ HoldingBuffers = {c}
                      /\ c = "dietary_metrics" =>
                            /\ "metric_type" \in DOMAIN rec
                            /\ rec.metric_type = Elem.type
                      /\ c # "dietary_metrics" => "metric_type" \notin DOMAIN rec

\* DietaryVitaminC has been appended to dietary_metrics.
C10_Witness ==
    /\ DietaryInHand
    /\ at = "appended"
    /\ Elem.type = QDietary("VitaminC")
    /\ cur = "dietary_metrics"

\* ------------------------------------------------------------------------
\* C11

\* The categories filled by a fixed set or by the prefix.
MetricCategories ==
    {"body_metrics", "walking_metrics", "environmental", "dietary_metrics"}

\* The records buffered for cat and the rows this run wrote to its table.
RecordsOf(cat) ==
    {batches[cat][k] : k \in 1..Len(batches[cat])}
    \cup {RunRows(cat)[k] : k \in 1..Len(RunRows(cat))}

\* C11: every record buffered for (or written to) body_metrics,
\* walking_metrics, environmental or dietary_metrics has a metric_type field
\* equal to the identifier of its element; no record of any other category,
\* workouts included, has a metric_type field.
C11_MetricTypeOnSetAndPrefixCategories ==
    \A c \in CategorySet : \A r \in RecordsOf(c) :
        IF c \in MetricCategories
        THEN /\ "metric_type" \in DOMAIN r.rec
             /\ r.rec.metric_type = doc[r.n].type
        ELSE "metric_type" \notin DOMAIN r.rec

\* A record with metric_type is buffered for walking_metrics.
C11_Witness ==
    /\ AtBoundary
    /\ batches["walking_metrics"] # <<>>
    /\ batches["walking_metrics"][1].rec.metric_type = Q("WalkingSpeed")

\* ------------------------------------------------------------------------
\* C12

\* The positions of the valid HeartRate Records of the document, in
\* document order.
HeartRatePositions ==
    SelectSeq([i \in 1..Len(doc) |-> i],
              LAMBDA i : /\ doc[i].tag = "Record"
                         /\ Get(doc[i], "type") = Some(HeartRate)
                         /\ Dated(doc[i]))

\* The data rows of a table.
DataRows(cat) ==
    IF cat \in DOMAIN files
    THEN SelectSeq(files[cat], LAMBDA l : l.kind = "row")
    ELSE <<>>

\* The fields of a valid HeartRate Record as the input gives them: the value
\* in tenths, 0.0 for a value that is no number; no end date and empty
\* strings for the attributes the element does not have.
HeartRateFields(e) ==
    [date |-> TimeOf(e.startDate[1]),
     endDate |-> IF "endDate" \in DOMAIN e
                 THEN Some(TimeOf(e.endDate[1])) ELSE None,
     value |-> IF "value" \in DOMAIN e /\ e.value = "72" THEN 720 ELSE 0,
     unit |-> IF "unit" \in DOMAIN e THEN e.unit ELSE "",
     source |-> IF "sourceName" \in DOMAIN e THEN e.sourceName ELSE ""]

\* C12: a completed run into an empty output directory leaves as many data
\* rows in heart_rate as the document has valid HeartRate Records, in
\* document order and equal to them field for field (no table when there is
\* none), and the metadata written counts that many under the identifier.
C12_HeartRateRoundTrip ==
    (pc = "DONE" /\ files0 = <<>>) =>
        LET hr == HeartRatePositions
            rows == DataRows("heart_rate")
        IN  /\ Len(rows) = Len(hr)
            /\ \A k \in 1..Len(hr) :
                  /\ rows[k].n = hr[k]
                  /\ rows[k].rec = HeartRateFields(doc[hr[k]])
            /\ Len(hr) = 0 => "heart_rate" \notin DOMAIN files
            /\ meta.state = "complete"
            /\ IF Len(hr) = 0
               THEN HeartRate \notin DOMAIN meta.content.record_counts
               ELSE meta.content.record_counts[HeartRate] = Len(hr)
            /\ Len(hr) > 0 =>
                  /\ HeaderLine(DOMAIN HeartRateFields(doc[hr[1]])) = files["heart_rate"][1]
                  /\ Len(files["heart_rate"]) = Len(hr) + 1

\* A completed run over BATCH_SIZE + 1 valid HeartRate Records, the first
\* with a value of 72 and one with an empty value.
C12_Witness ==
    /\ pc = "DONE"
    /\ files0 = <<>>
    /\ Len(HeartRatePositions) = BATCH_SIZE + 1
    /\ doc[1].value = "72"
    /\ \E k \in 1..Len(doc) : doc[k].value = ""
    /\ Len(DataRows("heart_rate")) = BATCH_SIZE + 1

\* ------------------------------------------------------------------------
\* C13

\* The writes of the run to the table of cat, in order.
WritesOf(cat) == SelectSeq(wlog, LAMBDA w : w.cat = cat)

\* The elements of the document that are routed to cat.
RoutedTo(cat) ==
    {j \in 1..Len(doc) : RoutedElem(doc[j]) /\ CategoryOf(doc[j]) = cat}

CeilDiv(n, d) == (n + d - 1) \div d

\* C13: after a completed run into an empty output directory, the table of a
\* category that got N >= 1 records is one header row followed by N data
\* rows, written by ceil(N / BATCH_SIZE) flushes; for N = BATCH_SIZE + 1
\* these are one flush of BATCH_SIZE rows during streaming and one of a
\* single row in the final flush.
C13_OneHeaderCeilFlushes ==
    (pc = "DONE" /\ files0 = <<>>) =>
        \A c \in CategorySet :
            LET N == Cardinality(RoutedTo(c))
                ws == WritesOf(c)
            IN  IF N = 0 THEN ws = <<>>
                ELSE /\ c \in DOMAIN files
                     /\ Len(files[c]) = N + 1
                     /\ files[c][1].kind = "header"
                     /\ \A k \in 2..(N + 1) : files[c][k].kind = "row"
                     /\ Len(ws) = CeilDiv(N, BATCH_SIZE)
                     /\ N = BATCH_SIZE + 1 =>
                           /\ ws[1].by = "stream" /\ Len(ws[1].ns) = BATCH_SIZE
                           /\ ws[2].by = "flush" /\ Len(ws[2].ns) = 1

\* A completed run routed BATCH_SIZE + 1 records to one category.
C13_Witness ==
    /\ pc = "DONE"
    /\ files0 = <<>>
    /\ \E c \in CategorySet :
          /\ Cardinality(RoutedTo(c)) = BATCH_SIZE + 1
          /\ Len(WritesOf(c)) = 2

\* ------------------------------------------------------------------------
\* C14

\* The append of the element in hand brought its buffer to BATCH_SIZE: the
\* elements routed to the category so far are a multiple of BATCH_SIZE.
BroughtToBatchSize ==
    /\ pc = "STREAMING"
    /\ at = "routed"
    /\ cur # ""
    /\ Cardinality({j \in RoutedTo(cur) : j <= pos}) % BATCH_SIZE = 0

\* C14: a buffer that an append brings to BATCH_SIZE records is written, as
\* one batch of BATCH_SIZE rows ending with the record just appended, and
\* emptied before anything else is done with the element; no buffer ever
\* holds more than BATCH_SIZE records, and outside of save_batch_if_full
\* every buffer holds between 0 and BATCH_SIZE - 1 records.
C14_BufferBelowBatchSize ==
    /\ \A c \in CategorySet : Len(batches[c]) <= BATCH_SIZE
    /\ (pc # "ABORTED" /\ at \notin {"appended", "written"}) =>
          \A c \in CategorySet : Len(batches[c]) <= BATCH_SIZE - 1
    /\ (pc = "STREAMING" /\ at \in {"appended", "written"}) =>
          \A c \in CategorySet \ {cur} : Len(batches[c]) <= BATCH_SIZE - 1
    /\ BroughtToBatchSize =>
          /\ batches[cur] = <<>>
          /\ wlog # <<>>
          /\ LET w == wlog[Len(wlog)]
             IN  /\ w.cat = cur
                 /\ w.by = "stream"
                 /\ Len(w.ns) = BATCH_SIZE
                 /\ w.ns[BATCH_SIZE] = pos

\* A full buffer has just been written and emptied.
C14_Witness ==
    /\ BroughtToBatchSize
    /\ batches[cur] = <<>>
    /\ Len(DataRows(cur)) >= BATCH_SIZE

\* ------------------------------------------------------------------------
\* C15

\* The categories that have received a record so far in the run.
Received == {CategoryOf(doc[j]) : j \in {i \in 1..pos : RoutedElem(doc[i])}}

\* C15: no write of a category table is a write of no rows, and a category
\* that has received no record in the run has no file written for it: its
\* table is absent if it was absent before the run and as it was otherwise;
\* on normal completion, on the interrupt path and on every other path.
C15_NoFileWithoutRecord ==
    LET received == Received
    IN  /\ \A k \in 1..Len(wlog) :
              wlog[k].by # "metadata" =>
                  wlog[k].ns # <<>> /\ wlog[k].cat \in received
        /\ \A c \in CategorySet \ received :
              IF c \in DOMAIN files0
              THEN c \in DOMAIN files /\ files[c] = files0[c]
              ELSE c \notin DOMAIN files
        /\ \A c \in DOMAIN files : Len(files[c]) >= 2

\* An interrupted main pass whose handler wrote the one buffer that held a
\* record, into an empty output directory.
C15_Witness ==
    /\ InterruptedIn({"STREAMING"})
    /\ files0 = <<>>
    /\ Received = {"workouts"}
    /\ DOMAIN files = {"workouts"}
    /\ wlog # <<>>
    /\ wlog[Len(wlog)].by = "handler"

\* ------------------------------------------------------------------------
\* C16

\* The lines of the table of cat that are header rows.
HeaderLines(cat) == {k \in 1..Len(files[cat]) : files[cat][k].kind = "header"}

Where ==
    IF pc = "ABORTED" THEN [pc |-> abort.pc, at |-> abort.at]
    ELSE [pc |-> pc, at |-> at]

\* The elements of the main pass whose start date has been observed: the
\* counted elements before the one in hand, and the one in hand once its
\* update_date_range call is behind.
Observed ==
    IF Where.pc \in {"INIT", "COUNTING"} THEN {}
    ELSE {j \in 1..pos :
             /\ Counted(doc[j])
             /\ \/ j < pos
                \/ Where.pc # "STREAMING"
                \/ Where.at \in {"next", "clear"}
                \/ /\ doc[j].tag = "Record"
                   /\ Where.at \in {"appended", "written", "routed"}}

Least(S) == CHOOSE x \in S : \A y \in S : x <= y

Greatest(S) == CHOOSE x \in S : \A y \in S : x >= y

\* C17: the keys of data_ranges are the keys observed; for each, min_date is
\* the least and max_date the greatest of the valid start dates observed for
\* it (so the first observation sets both, min_date <= max_date, min_date
\* never increases and max_date never decreases as observations are added);
\* an absent date changes nothing; the metadata written holds these bounds.
C17_DateRangeIsMinMax ==
    LET seen == Observed
        dates(key) ==
            {TimeOf(doc[j].startDate[1]) : j \in {i \in seen : KeyOf(doc[i]) = key}}
    IN  /\ DOMAIN data_ranges = {KeyOf(doc[j]) : j \in seen}
        /\ \A key \in DOMAIN data_ranges :
              /\ data_ranges[key].min_date = Some(Least(dates(key)))
              /\ data_ranges[key].max_date = Some(Greatest(dates(key)))
              /\ data_ranges[key].min_date[1] <= data_ranges[key].max_date[1]
              /\ update_date_range(data_ranges, key, None) = data_ranges
        /\ pc = "DONE" =>
              /\ DOMAIN meta.content.data_ranges = DOMAIN data_ranges
              /\ \A key \in DOMAIN data_ranges :
                    /\ meta.content.data_ranges[key].min_date =
                          Some(IsoFormat(Least(dates(key))))
                    /\ meta.content.data_ranges[key].max_date =
                          Some(IsoFormat(Greatest(dates(key))))

\* A later start date was observed first: min_date was lowered after the
\* first observation had set both bounds.
C17_Witness ==
    /\ AtBoundary
    /\ pos >= 2
    /\ Counted(doc[1]) /\ KeyOf(doc[1]) = HeartRate
    /\ TimeOf(doc[1].startDate[1]) = 2
    /\ HeartRate \in DOMAIN data_ranges
    /\ data_ranges[HeartRate] = [min_date |-> Some(1), max_date |-> Some(2)]

\* ------------------------------------------------------------------------
\* C18

\* The positions of the Workout elements with a valid start date among the
\* first n elements, in document order.
WorkoutPositions(n) ==
    SelectSeq([i \in 1..n |-> i],
              LAMBDA i : doc[i].tag = "Workout" /\ Dated(doc[i]))

\* A number attribute in tenths, 0.0 when the attribute is missing.
Tenths(e, key) ==
    IF key \notin DOMAIN e THEN 0
    ELSE CASE e[key] = "1800" -> 18000
           [] e[key] = "72" -> 720
           [] e[key] = "5.0" -> 50
           [] e[key] = "400" -> 4000
           [] OTHER -> 0

\* The fields of a Workout as the input gives them.
WorkoutFields(e) ==
    [type |-> IF "workoutActivityType" \in DOMAIN e
              THEN Some(e.workoutActivityType) ELSE None,
     duration |-> Tenths(e, "duration"),
     date |-> TimeOf(e.startDate[1]),
     endDate |-> IF "endDate" \in DOMAIN e
                 THEN Some(TimeOf(e.endDate[1])) ELSE None,
     distance |-> Tenths(e, "totalDistance"),
     energy |-> Tenths(e, "totalEnergyBurned"),
     source |-> IF "sourceName" \in DOMAIN e THEN e.sourceName ELSE ""]

\* C18: between two elements, every Workout with a valid start date
\* processed so far is once in the workouts buffer or table, with its type
\* (absent when the attribute is missing), duration, distance, energy,
\* dates and source, and in no other category, and record_counts['workouts']
\* is their number; after a completed run the rows of the workouts table
\* are these records in document order.
C18_WorkoutsToOneCategory ==
    /\ (AtBoundary \/ pc = "DONE") =>
          LET ws == WorkoutPositions(pos)
          IN  /\ IF Len(ws) = 0 THEN WorkoutsKey \notin DOMAIN record_counts
                 ELSE record_counts[WorkoutsKey] = Len(ws)
              /\ \A k \in 1..Len(ws) :
                    /\ \A c \in CategorySet \ {"workouts"} :
                          Occurrences(batches[c], ws[k]) + Occurrences(RunRows(c), ws[k]) = 0
                    /\ \A r \in RecordsOf("workouts") :
                          r.n = ws[k] => r.rec = WorkoutFields(doc[ws[k]])
                    /\ IF pc = "DONE"
                       THEN Occurrences(RunRows("workouts"), ws[k]) = 1
                       ELSE Occurrences(batches["workouts"], ws[k])
                            + Occurrences(RunRows("workouts"), ws[k]) = 1
    /\ pc = "DONE" =>
          LET ws == WorkoutPositions(Len(doc))
              rows == RunRows("workouts")
          IN  /\ Len(rows) = Len(ws)
              /\ \A k \in 1..Len(ws) : rows[k].n = ws[k]

\* A completed run wrote a Workout that has no workoutActivityType.
C18_Witness ==
    /\ pc = "DONE"
    /\ Len(RunRows("workouts")) = 1
    /\ "workoutActivityType" \notin DOMAIN doc[RunRows("workouts")[1].n]
    /\ RunRows("workouts")[1].rec.type = None
    /\ record_counts[WorkoutsKey] = 1

\* ------------------------------------------------------------------------
\* C19

\* C19: the exit status is 0 exactly when the run reached DONE, and then
\* every buffered record is in its table and the metadata is written; it is
\* 1 in every ABORTED state, whether the input file was missing (no table
\* and no metadata file is touched then), the run was interrupted, or an
\* error ended it, a failure of the counting pass included.
C19_ExitStatusZeroIffDone ==
    /\ exit_status = 0 <=> pc = "DONE"
    /\ pc = "ABORTED" <=> exit_status = 1
    /\ pc \notin {"DONE", "ABORTED"} => exit_status = -1
    /\ pc = "DONE" =>
          /\ meta.state = "complete"
          /\ \A c \in CategorySet : \A k \in 1..Len(batches[c]) :
                Occurrences(RunRows(c), batches[c][k].n) = 1
    /\ (pc = "ABORTED" /\ ~xml_exists) =>
          files = files0 /\ meta = meta0 /\ wlog = <<>>

\* The counting pass failed on a document that holds an element.
C19_Witness ==
    /\ pc = "ABORTED"
    /\ abort.cause = "error"
    /\ abort.pc = "COUNTING"
    /\ exit_status = 1
    /\ pos >= 1

\* ------------------------------------------------------------------------
\* C20

\* C20: when a filesystem operation fails (the input file is missing, the
\* output directory cannot be created, a read, a batch write or the metadata
\* write fails) the run is aborted with a non-zero exit status, and the
\* metadata file is as it was before the run: the run has written none,
\* complete or partial.
C20_FilesystemFailureLeavesNoMetadata ==
    (pc = "ABORTED" /\ abort.cause = "error") =>
        /\ exit_status # 0
        /\ meta = meta0
        /\ MetaWrites = {}

\* ------------------------------------------------------------------------
\* C21

\* A date string of the layout 'YYYY-MM-DD HH:MM:SS', alone or followed by
\* a blank and a UTC offset of either sign.
HasDateLayout(s) ==
    /\ Len(s) \in {1, 4}
    /\ s[1] \in DateTimeTokens
    /\ Len(s) = 4 => (s[2] = " " /\ s[3] \in {"+", "-"})

\* C21: safe_parse_date answers the timestamp of the date-time part for
\* every string of the layout, whatever the sign of its offset, and None for
\* every other string, raising nothing; so a Record whose start date has the
\* layout is kept: it is counted, and buffered or written when a rule
\* matches its identifier.
C21_OffsetOfEitherSignParsed ==
    AtBoundary =>
        \A j \in 1..pos :
            (/\ doc[j].tag = "Record"
             /\ Truthy(Get(doc[j], "type"))
             /\ "startDate" \in DOMAIN doc[j]) =>
                LET s == doc[j].startDate
                    r == safe_parse_date(Some(s))
                IN  /\ r.exc = "none"
                    /\ r.val = IF HasDateLayout(s) THEN Some(TimeOf(s[1])) ELSE None
                    /\ HasDateLayout(s) =>
                          /\ doc[j].type \in DOMAIN record_counts
                          /\ MatchRule(doc[j].type) # 0 =>
                                \E c \in CategorySet :
                                    Occurrences(batches[c], j)
                                    + Occurrences(RunRows(c), j) = 1

\* ------------------------------------------------------------------------
\* C22

\* Attribute values that are absent, empty or no number.
MalformedNumbers == {None, Some(""), Some("abc")}

\* The element has a numeric attribute that is absent, empty or no number.
HasMalformedNumber(e) ==
    \E key \in (IF e.tag = "Record" THEN {"value"}
                ELSE {"duration", "totalDistance", "totalEnergyBurned"}) :
        Get(e, key) \in MalformedNumbers

\* C22: safe_float answers its default, 0.0 or the one given, for a value
\* that is absent, empty or no number, and raises nothing, so no run is
\* aborted while an element is normalized; every buffered or written record
\* has in value, or in duration, distance and energy, the number of its
\* attribute, 0.0 when the attribute is malformed; and between two elements
\* every counted element with a malformed number that a rule matches is in
\* its buffer or table all the same.
C22_MalformedNumberGivesDefault ==
    /\ \A v \in MalformedNumbers : \A d \in {0, 7} : safe_float(v, d) = Ret(d)
    /\ ~(pc = "ABORTED" /\ abort.cause = "error"
         /\ abort.pc = "STREAMING" /\ abort.at = "elem")
    /\ \A c \in CategorySet : \A r \in RecordsOf(c) :
          IF c = "workouts"
          THEN /\ r.rec.duration = Tenths(doc[r.n], "duration")
               /\ r.rec.distance = Tenths(doc[r.n], "totalDistance")
               /\ r.rec.energy = Tenths(doc[r.n], "totalEnergyBurned")
          ELSE r.rec.value = Tenths(doc[r.n], "value")
    /\ AtBoundary =>
          \A j \in 1..pos :
              (RoutedElem(doc[j]) /\ HasMalformedNumber(doc[j])) =>
                  Occurrences(batches[CategoryOf(doc[j])], j)
                  + Occurrences(RunRows(CategoryOf(doc[j])), j) = 1

\* A HeartRate Record whose value is no number is buffered with value 0.0.
C22_Witness ==
    /\ AtBoundary
    /\ pos = 1
    /\ doc[1].tag = "Record"
    /\ Get(doc[1], "value") = Some("abc")
    /\ Len(batches["heart_rate"]) = 1
    /\ batches["heart_rate"][1].rec.value = 0

\* ------------------------------------------------------------------------
\* C23

\* C23: an interrupt of the main pass takes effect between two elements
\* only: when the handler runs, the element that was started has been
\* classified, appended and, with a full buffer, written and reset, so the
\* handler never finds a buffer that is written to its file and not yet
\* reset.
C23_InterruptOnlyBetweenElements ==
    InterruptedIn({"STREAMING"}) =>
        /\ abort.at \notin InElement
        /\ \A c \in CategorySet : Len(abort.batches[c]) <= BATCH_SIZE - 1

\* ------------------------------------------------------------------------
\* The dashboard (app.py, data_loader.py)

\* The tables load_all_data loads, in the order of its load_data calls.
LoadOrder ==
    <<"heart_rate", "resting_heart_rate", "heart_rate_variability", "vo2_max",
      "walking_heart_rate", "steps", "active_energy", "basal_energy",
      "distance_walking_running", "distance_cycling", "flights_climbed",
      "exercise_time", "stand_time", "walking_metrics", "workouts", "sleep",
      "body_metrics", "oxygen_saturation", "respiratory_rate", "water",
      "caffeine", "dietary_metrics", "environmental">>

\* What preprocess_health_data.py can leave in processed_data: nothing; the
\* tables and metadata of a completed run; the tables of an interrupted run;
\* tables and a metadata file whose json.dump did not finish; the metadata of
\* a run that routed no record.
DashDirs ==
    DirStates \cup
    { [files |-> ("heart_rate" :> OldTable),
       meta |-> [state |-> "partial", content |-> <<>>]],
      [files |-> <<>>, meta |-> [state |-> "stale", content |-> <<>>]] }

\* os.path.exists("processed_data/metadata.json")
MetadataExists == meta.state # "absent"

DashInit ==
    /\ \E d \in DashDirs :
          /\ files = d.files
          /\ meta = d.meta
          /\ files0 = d.files
          /\ meta0 = d.meta
    /\ xml_exists = FALSE
    /\ doc = <<>>
    /\ pc = "INIT"
    /\ at = "start"
    /\ pos = 0
    /\ total_records = 0
    /\ held = 0
    /\ cur = ""
    /\ batches = [c \in CategorySet |-> <<>>]
    /\ all_data_types = {}
    /\ data_ranges = <<>>
    /\ record_counts = <<>>
    /\ flush_at = 1
    /\ exit_status = -1
    /\ abort = NoAbort
    /\ wlog = <<>>
    /\ path = <<"INIT">>
    /\ dashboard = NotStarted

\* What no step of the dashboard changes: the dashboard writes no file.
DashFrame ==
    UNCHANGED <<xml_exists, doc, files, pc, at, pos, total_records, held, cur,
                batches, all_data_types, data_ranges, record_counts, flush_at,
                exit_status, abort, files0, meta0, wlog, path>>

\* Variant of main whose check does not stop: on a missing metadata file it
\* goes on to load_all_data.
MainMissing_GoesOn ==
    /\ dashboard.pc = "main"
    /\ ~MetadataExists
    /\ dashboard' = [dashboard EXCEPT !.pc = "load_all_data"]
    /\ UNCHANGED meta
    /\ DashFrame

\* main: metadata.json does not exist; st.error, st.stop().
MainMissing ==
    /\ dashboard.pc = "main"
    /\ ~MetadataExists
    /\ dashboard' = [dashboard EXCEPT !.pc = "stopped"]
    /\ UNCHANGED meta
    /\ DashFrame

\* main: metadata.json exists.
MainExists ==
    /\ dashboard.pc = "main"
    /\ MetadataExists
    /\ dashboard' = [dashboard EXCEPT !.pc = "load_metadata", !.seen = TRUE]
    /\ UNCHANGED meta
    /\ DashFrame

\* load_metadata, memoized by st.cache_data: the file is not opened.
LoadMetadataCached ==
    /\ dashboard.pc = "load_metadata"
    /\ dashboard.metadata_cached
    /\ dashboard' = [dashboard EXCEPT !.pc = "load_all_data"]
    /\ UNCHANGED meta
    /\ DashFrame

\* load_metadata: open and json.load.
LoadMetadata ==
    /\ dashboard.pc = "load_metadata"
    /\ ~dashboard.metadata_cached
    /\ meta.state \in {"stale", "complete"}
    /\ dashboard' = [dashboard EXCEPT !.pc = "load_all_data",
                                      !.metadata_cached = TRUE]
    /\ UNCHANGED meta
    /\ DashFrame

\* load_metadata: the file went away after main's check; FileNotFoundError,
\* st.error, st.stop().
LoadMetadataNotFound ==
    /\ dashboard.pc = "load_metadata"
    /\ ~dashboard.metadata_cached
    /\ ~MetadataExists
    /\ dashboard' = [dashboard EXCEPT !.pc = "stopped"]
    /\ UNCHANGED meta
    /\ DashFrame

\* load_metadata: json.load raises on a file that is not complete JSON; the
\* exception ends the execution of main.
LoadMetadataFails ==
    /\ dashboard.pc = "load_metadata"
    /\ ~dashboard.metadata_cached
    /\ meta.state = "partial"
    /\ dashboard' = [dashboard EXCEPT !.pc = "failed"]
    /\ UNCHANGED meta
    /\ DashFrame

\* load_all_data: 'data_loaded' is in st.session_state.
LoadAllDataSkip ==
    /\ dashboard.pc = "load_all_data"
    /\ dashboard.data_loaded
    /\ dashboard' = [dashboard EXCEPT !.pc = "ready"]
    /\ UNCHANGED meta
    /\ DashFrame

\* load_all_data: the next load_data call; a missing table gives an empty
\* frame.
LoadData ==
    /\ dashboard.pc = "load_all_data"
    /\ ~dashboard.data_loaded
    /\ dashboard.next <= Len(LoadOrder)
    /\ dashboard' = [dashboard EXCEPT
                        !.loads = Append(@, LoadOrder[dashboard.next]),
                        !.next = @ + 1]
    /\ UNCHANGED meta
    /\ DashFrame

\* load_all_data: st.session_state.data_loaded = True.
LoadAllDataDone ==
    /\ dashboard.pc = "load_all_data"
    /\ ~dashboard.data_loaded
    /\ dashboard.next > Len(LoadOrder)
    /\ dashboard' = [dashboard EXCEPT !.pc = "ready", !.data_loaded = TRUE]
    /\ UNCHANGED meta
    /\ DashFrame

\* Streamlit executes the script again in the same session: session state
\* and cache are kept.
Rerun ==
    /\ dashboard.pc \in {"ready", "stopped", "failed"}
    /\ dashboard' = [NotStarted EXCEPT
                        !.data_loaded = dashboard.data_loaded,
                        !.metadata_cached = dashboard.metadata_cached]
    /\ UNCHANGED meta
    /\ DashFrame

\* A new session executes the script: the cache is kept, the session state
\* is new.
NewSession ==
    /\ dashboard.pc \in {"ready", "stopped", "failed"}
    /\ dashboard.data_loaded
    /\ dashboard' = [NotStarted EXCEPT
                        !.metadata_cached = dashboard.metadata_cached]
    /\ UNCHANGED meta
    /\ DashFrame

\* The metadata file is removed while the dashboard runs.
MetadataRemoved ==
    /\ MetadataExists
    /\ meta' = NoMeta
    /\ UNCHANGED dashboard
    /\ DashFrame

\* A preprocessing run writes the metadata file while the dashboard runs.
MetadataWritten ==
    /\ meta.state \in {"absent", "partial"}
    /\ meta' = [state |-> "stale", content |-> <<>>]
    /\ UNCHANGED dashboard
    /\ DashFrame

DashNext ==
    \/ MainMissing
    \/ MainExists
    \/ LoadMetadataCached
    \/ LoadMetadata
    \/ LoadMetadataNotFound
    \/ LoadMetadataFails
    \/ LoadAllDataSkip
    \/ LoadData
    \/ LoadAllDataDone
    \/ Rerun
    \/ NewSession
    \/ MetadataRemoved
    \/ MetadataWritten

DashSpec == DashInit /\ [][DashNext]_vars

\* ------------------------------------------------------------------------
\* C24

\* C24: the dashboard loads category tables only in an execution of main
\* whose check found the metadata file: an execution that found it missing
\* is stopped there, it never enters load_metadata or load_all_data and it
\* has made no load_data call.
C24_TablesOnlyAfterMetadataObserved ==
    /\ dashboard.loads # <<>> => dashboard.seen
    /\ dashboard.pc \in {"load_metadata", "load_all_data", "ready", "failed"}
          => dashboard.seen
    /\ (dashboard.pc = "stopped" /\ ~dashboard.seen) => dashboard.loads = <<>>

\* main has stopped on a missing metadata file in a directory that holds a
\* category table, and no table was loaded.
C24_Witness ==
    /\ dashboard.pc = "stopped"
    /\ ~dashboard.seen
    /\ ~MetadataExists
    /\ "heart_rate" \in DOMAIN files
    /\ dashboard.loads = <<>>

\* ------------------------------------------------------------------------
\* C25

\* C25: in the counting pass and in the main pass the pipeline never holds
\* more than one yielded, not yet cleared element: whenever the reader is
\* about to yield, the element before has been cleared, and an element whose
\* processing raised has been cleared when the handler has run.
C25_AtMostOneElementHeld ==
    /\ held \in {0, 1}
    /\ (pc \in {"COUNTING", "STREAMING"} /\ at = "next") => held = 0
    /\ (pc \in {"COUNTING", "STREAMING"} /\ at \in InElement) => held = 1
    /\ ErrorInElement => held = 0
    /\ pc \in {"FLUSHING", "METADATA_WRITE", "DONE"} => held = 0

\* The processing of the second element of the main pass raised: both passes
\* have yielded and cleared elements before, and the element in hand is
\* cleared.
C25_Witness ==
    /\ ErrorInElement
    /\ abort.at \in InElement
    /\ pos = 2
    /\ total_records >= 2
    /\ held = 0

\* ------------------------------------------------------------------------
\* C26

\* The identifiers of the Records with a type attribute among the first n
\* elements of the document.
TypedRecords(n) ==
    {doc[j].type :
        j \in {i \in 1..n : doc[i].tag = "Record" /\ Truthy(Get(doc[i], "type"))}}

\* C26: data_types is the set of the identifiers of the Records with a type
\* attribute that the main pass has seen, whether or not a rule matches
\* them and whether or not their start date is there and parses; Records
\* without a type and Workouts add nothing.  The metadata of a completed run
\* lists that set for the whole document.
C26_DataTypesAreTypedRecords ==
    /\ AtBoundary => all_data_types = TypedRecords(pos)
    /\ pc \in {"FLUSHING", "METADATA_WRITE", "DONE"} =>
          all_data_types = TypedRecords(Len(doc))
    /\ (pc = "DONE" /\ meta.state = "complete") =>
          meta.content.data_types = TypedRecords(Len(doc))

\* A completed run over a HeartRate Record without a start date, a Record
\* that no rule matches and a Workout: the metadata lists both identifiers.
C26_Witness ==
    /\ pc = "DONE"
    /\ meta.state = "complete"
    /\ Len(doc) = 3
    /\ \E j \in 1..3 : doc[j].tag = "Workout"
    /\ \E j \in 1..3 : doc[j].tag = "Record" /\ Get(doc[j], "startDate") = None
    /\ meta.content.data_types = {HeartRate, Q("BloodGlucose")}
    /\ HeartRate \notin DOMAIN record_counts

\* ------------------------------------------------------------------------
\* C27

\* The document positions of the rows written to the table of cat in this
\* run, followed by those of the records in its buffer.
WrittenThenBuffered(cat) ==
    LET s == RunRows(cat) \o batches[cat]
    IN  [k \in 1..Len(s) |-> s[k].n]

\* C27: between two elements of the main pass, for every category the rows
\* written to its table in this run followed by the records in its buffer
\* are the records routed to it so far, each once and in document order.
C27_RowsPlusBufferAreRoutedInOrder ==
    AtBoundary =>
        LET routed == {j \in 1..pos : RoutedElem(doc[j])}
        IN  \A c \in CategorySet :
                LET ns == WrittenThenBuffered(c)
                    to == {j \in routed : CategoryOf(doc[j]) = c}
                IN  /\ Len(RunRows(c)) + Len(batches[c]) = Cardinality(to)
                    /\ {ns[k] : k \in 1..Len(ns)} = to
                    /\ \A k \in 1..(Len(ns) - 1) : ns[k] < ns[k + 1]

\* Three records were routed to heart_rate: a full buffer of them is in the
\* table, the last is buffered.
C27_Witness ==
    /\ AtBoundary
    /\ pos = BATCH_SIZE + 1
    /\ \A j \in 1..pos : RoutedElem(doc[j]) /\ CategoryOf(doc[j]) = "heart_rate"
    /\ Len(RunRows("heart_rate")) = BATCH_SIZE
    /\ Len(batches["heart_rate"]) = 1
    /\ WrittenThenBuffered("heart_rate") = [k \in 1..pos |-> k]

\* ------------------------------------------------------------------------
\* C28

\* C28: between two elements of the main pass, and from the end of the main
\* pass on, record_counts and data_ranges have the same keys, every count is
\* at least 1 and every range has both bounds; the metadata of a completed
\* run has no data_ranges entry with a null bound and no entry for a key
\* without a counted record.
C28_CountsAndRangesAgree ==
    /\ (AtBoundary \/ pc \in {"FLUSHING", "METADATA_WRITE", "DONE"}) =>
          /\ DOMAIN record_counts = DOMAIN data_ranges
          /\ \A k \in DOMAIN record_counts : record_counts[k] >= 1
          /\ \A k \in DOMAIN data_ranges :
                data_ranges[k].min_date # None /\ data_ranges[k].max_date # None
          /\ DOMAIN record_counts =
                {KeyOf(doc[j]) : j \in {i \in 1..pos : Counted(doc[i])}}
    /\ (pc = "DONE" /\ meta.state = "complete") =>
          /\ DOMAIN meta.content.data_ranges = DOMAIN meta.content.record_counts
          /\ \A k \in DOMAIN meta.content.data_ranges :
                /\ meta.content.data_ranges[k].min_date # None
                /\ meta.content.data_ranges[k].max_date # None
                /\ meta.content.record_counts[k] >= 1

\* A completed run over a HeartRate Record without a start date, a dated
\* Record and a dated Workout: the metadata has the two keys that were
\* counted and none for HeartRate.
C28_Witness ==
    /\ pc = "DONE"
    /\ meta.state = "complete"
    /\ Len(doc) = 3
    /\ \E j \in 1..3 : doc[j].tag = "Record" /\ Get(doc[j], "type") = Some(HeartRate)
    /\ DOMAIN meta.content.data_ranges = {Q("BloodGlucose"), WorkoutsKey}
    /\ DOMAIN meta.content.record_counts = {Q("BloodGlucose"), WorkoutsKey}

\* ------------------------------------------------------------------------
\* C29

\* C29: after a completed run the table of every category has as many data
\* rows as the run routed records to the category, whatever tables the
\* output directory held before the run.
C29_TableRowsAreThisRunsRecords ==
    pc = "DONE" =>
        \A c \in CategorySet :
            Len(DataRows(c)) = Cardinality(RoutedTo(c))

\* ------------------------------------------------------------------------
\* C30

\* The elements the documents of the runs followed to their end are built
\* from: a Record that is routed, a Record that is dropped and a Workout.
LiveElements ==
    {e \in Elements : e.tag = "Workout" \/ (e.type = HeartRate /\ e.value = "72")}

\* With them the documents of one element that is no Record built by Rec: an
\* element that is neither Record nor Workout, a Record without type, a
\* malformed value, Workouts without attributes or with a malformed date.
LiveDocs ==
    SeqsUpTo(LiveElements, MaxDoc)
    \cup {<<e>> : e \in {w \in WideElements : "unit" \notin DOMAIN w}}

LiveInit ==
    /\ \E d \in DirStates :
          /\ files = d.files
          /\ meta = d.meta
          /\ files0 = d.files
          /\ meta0 = d.meta
    /\ \/ xml_exists = TRUE /\ doc \in LiveDocs
       \/ xml_exists = FALSE /\ doc = <<>>
    /\ pc = "INIT"
    /\ at = "start"
    /\ pos = 0
    /\ total_records = 0
    /\ held = 0
    /\ cur = ""
    /\ batches = [c \in CategorySet |-> <<>>]
    /\ all_data_types = {}
    /\ data_ranges = <<>>
    /\ record_counts = <<>>
    /\ flush_at = 1
    /\ exit_status = -1
    /\ abort = NoAbort
    /\ wlog = <<>>
    /\ path = <<"INIT">>
    /\ dashboard = NotStarted

\* The interpreter goes on executing the driver: a step that is possible is
\* taken sooner or later.
LiveSpec == LiveInit /\ [][Next]_vars /\ WF_vars(Next)

\* The run was aborted by an interrupt, or by an exception raised where the
\* driver reads the input, makes the directory or writes a file.
Disturbed ==
    \/ abort.cause = "interrupt"
    \/ /\ abort.cause = "error"
       /\ \/ abort.pc \in {"INIT", "COUNTING", "FLUSHING"}
          \/ abort.pc = "STREAMING" /\ abort.at \in {"next", "appended"}
          \/ abort.pc = "METADATA_WRITE" /\ abort.at \in {"open", "dump"}

\* The run is DONE with exit status 0, the metadata file is written and every
\* routed record of the document is a row of the table of its category.
DoneWell ==
    /\ pc = "DONE"
    /\ exit_status = 0
    /\ meta.state = "complete"
    /\ LET routed == {j \in 1..Len(doc) : RoutedElem(doc[j])}
       IN  \A j \in routed : Occurrences(RunRows(CategoryOf(doc[j])), j) = 1

\* C30: every run ends in DONE or in ABORTED, so the driver stays in none of
\* COUNTING, STREAMING and FLUSHING forever; a run that is ABORTED was
\* interrupted or met a failure of the input, the directory or a write, so a
\* run without interrupt and without such a failure ends in DONE, with every
\* routed record written, the metadata written and exit status 0.
C30_EveryRunTerminates ==
    /\ [](pc = "ABORTED" => Disturbed /\ exit_status # 0)
    /\ [](pc = "DONE" => DoneWell)
    /\ <>(pc \in {"DONE", "ABORTED"})

\* A run over a document of three routed records has ended in DONE.
C30_Witness ==
    /\ DoneWell
    /\ Len(doc) = 3
    /\ \A j \in 1..3 : RoutedElem(doc[j])
    /\ path = <<"INIT", "COUNTING", "STREAMING", "FLUSHING", "METADATA_WRITE", "DONE">>

====
